---- MODULE Spec2Model ----
(***************************************************************************)
(* A model of art::InternTable (src/src/intern_table.cc): three hash       *)
(* multimaps (strong_interns_, weak_interns_, image_strong_interns_)       *)
(* guarded by the single mutex intern_table_lock_, and the public          *)
(* operations that threads run against them.                               *)
(***************************************************************************)
EXTENDS Integers, Sequences, FiniteSets, TLC

(* ------------------------------ bounds -------------------------------- *)
NumThreads == 2   \* threads calling into the table
NumRefs == 3      \* distinct String objects (references) that exist
MaxImage == 1     \* cap on the length of image_strong_interns_

Threads == 1..NumThreads
Refs == 1..NumRefs
NULL == 0

(* ------------------- String (external collaborator) ------------------- *)
\* Content value of each String object: objects 1 and 2 hold the same text,
\* objects 3 and 4 two other texts, and so on round.  The objects after
\* NumRefs are freshly allocated strings that all hold the text of object 1.
ContentOf == <<1, 1, 2, 3, 1, 2, 3>>
ValueOf(s) == IF s > NumRefs THEN 1 ELSE ContentOf[((s - 1) % Len(ContentOf)) + 1]
\* String::GetHashCode: content-derived; values 1 and 2 collide.
GetHashCode(s) == (ValueOf(s) + 1) \div 2
\* String::Equals: value equality.
Equals(a, b) == ValueOf(a) = ValueOf(b)

(* ----------------------------- state ---------------------------------- *)
VARIABLES
  strong,   \* strong_interns_: sequence of String*, ordered by hash key
  weak,     \* weak_interns_
  image,    \* image_strong_interns_
  lock,     \* intern_table_lock_: NULL when free, else the owning thread
  pc,       \* per thread: position in the operation it is running
  op,       \* per thread: the public operation it called
  arg,      \* per thread: the String* argument of the call (NULL if none)
  ret,      \* per thread: the value the call returns
  it,       \* the iterator of the running VisitRoots / Sweep loop (index)
  visited,  \* objects handed to the root visitor by the running VisitRoots
  tested,   \* <<object, is_marked result>> pairs of the running sweep
  weak0,    \* weak_interns_ as it was when the running sweep began
  found,    \* what the lookups of the running Insert found
  last,     \* the call that completed most recently: [op, arg, ret]
  start     \* the tables as they were before any thread of the run called

vars == <<strong, weak, image, lock, pc, op, arg, ret, it, visited, tested, weak0,
          found, last, start>>
tables == <<strong, weak, image>>
locals == <<it, visited, tested, weak0>>

\* The three tables as one value.
Tables == [strong |-> strong, weak |-> weak, image |-> image]
Empty == [strong |-> <<>>, weak |-> <<>>, image |-> <<>>]

(* ------------------------- Table (multimap) --------------------------- *)
\* The key under which an entry is stored is its hash code.
KeyOf(s) == GetHashCode(s)

Range(table) == {table[i] : i \in 1..Len(table)}

\* table.find(hash_code): the first entry whose key is hash_code, or end().
Find(table, hash_code) ==
  IF \E i \in 1..Len(table) : KeyOf(table[i]) = hash_code
  THEN CHOOSE i \in 1..Len(table) :
         /\ KeyOf(table[i]) = hash_code
         /\ \A j \in 1..(i - 1) : KeyOf(table[j]) # hash_code
  ELSE Len(table) + 1

\* InternTable::Lookup: scan from find(hash_code) to table.end() and return
\* the first entry that Equals(s).
RECURSIVE LookupFrom(_, _, _)
LookupFrom(table, s, i) ==
  IF i > Len(table) THEN NULL
  ELSE IF Equals(table[i], s) THEN table[i]
  ELSE LookupFrom(table, s, i + 1)

\* Lookup comparing references where it should compare contents.
LookupByIdentity(table, s, hash_code) ==
  IF \E i \in 1..Len(table) : table[i] = s THEN s ELSE NULL

\* Lookup returning the first entry of the bucket without comparing contents.
LookupFirstInBucket(table, s, hash_code) ==
  IF Find(table, hash_code) <= Len(table)
  THEN table[Find(table, hash_code)] ELSE NULL

Lookup(table, s, hash_code) == LookupFrom(table, s, Find(table, hash_code))

\* table.insert(make_pair(hash_code, s)): the entry goes after the last
\* entry whose key is <= hash_code (upper bound of the equal range).
UpperBound(table, hash_code) ==
  Cardinality({i \in 1..Len(table) : KeyOf(table[i]) <= hash_code})

TableInsert(table, s, hash_code) ==
  LET n == UpperBound(table, hash_code)
  IN  SubSeq(table, 1, n) \o <<s>> \o SubSeq(table, n + 1, Len(table))

\* table.erase(it)
Erase(table, i) == SubSeq(table, 1, i - 1) \o SubSeq(table, i + 1, Len(table))

\* InternTable::Remove: scan from find(hash_code) to table.end() and erase
\* the first entry that is the object s itself.
RECURSIVE RemoveFrom(_, _, _)
RemoveFrom(table, s, i) ==
  IF i > Len(table) THEN table
  ELSE IF table[i] = s THEN Erase(table, i)
  ELSE RemoveFrom(table, s, i + 1)

Remove(table, s, hash_code) == RemoveFrom(table, s, Find(table, hash_code))

(* ---------------------- InternTable::Insert(s, is_strong) ------------- *)
\* The three Lookup calls at the head of either branch of Insert: the first
\* table, in the order strong, image, weak, that holds a match, and the match.
NotFound == [where |-> "none", obj |-> NULL]

\* The lookups with the image table left out.
ProbeNoImage(T, s) ==
  LET hash_code == GetHashCode(s)
      st == Lookup(T.strong, s, hash_code)
      wk == Lookup(T.weak, s, hash_code)
  IN  IF st # NULL THEN [where |-> "strong", obj |-> st]
      ELSE IF wk # NULL THEN [where |-> "weak", obj |-> wk]
      ELSE NotFound

\* The lookups with the strong table left out.
ProbeNoStrong(T, s) ==
  LET hash_code == GetHashCode(s)
      im == Lookup(T.image, s, hash_code)
      wk == Lookup(T.weak, s, hash_code)
  IN  IF im # NULL THEN [where |-> "image", obj |-> im]
      ELSE IF wk # NULL THEN [where |-> "weak", obj |-> wk]
      ELSE NotFound

Probe(T, s) ==
  LET hash_code == GetHashCode(s)
      st == Lookup(T.strong, s, hash_code)
      im == Lookup(T.image, s, hash_code)
      wk == Lookup(T.weak, s, hash_code)
  IN  IF st # NULL THEN [where |-> "strong", obj |-> st]
      ELSE IF im # NULL THEN [where |-> "image", obj |-> im]
      ELSE IF wk # NULL THEN [where |-> "weak", obj |-> wk]
      ELSE NotFound

\* Insert returns r and leaves the tables T as they are.
Unchanged(T, r) ==
  [strong |-> T.strong, weak |-> T.weak, image |-> T.image, ret |-> r]

\* Promotion that forgets to take the entry out of the weak table.
PromoteKeepWeak(T, wk, hash_code) ==
  [strong |-> TableInsert(T.strong, wk, hash_code),
   weak |-> T.weak,
   image |-> T.image,
   ret |-> wk]

\* A match was found in the weak table: Remove(weak_interns_, weak, hash_code);
\* return Insert(strong_interns_, weak, hash_code).
Promote(T, wk, hash_code) ==
  [strong |-> TableInsert(T.strong, wk, hash_code),
   weak |-> Remove(T.weak, wk, hash_code),
   image |-> T.image,
   ret |-> wk]

\* The strong branch inserting the candidate where it should promote.
ApplyStrongNoPromote(T, s, f) ==
  IF f.where \in {"strong", "image"} THEN Unchanged(T, f.obj)
  ELSE [strong |-> TableInsert(T.strong, s, GetHashCode(s)),
        weak |-> T.weak, image |-> T.image, ret |-> s]

\* The strong branch acting on what the lookups found (f).
ApplyStrong(T, s, f) ==
  IF f.where \in {"strong", "image"} THEN Unchanged(T, f.obj)
  ELSE IF f.where = "weak" THEN Promote(T, f.obj, GetHashCode(s))
  ELSE [strong |-> TableInsert(T.strong, s, GetHashCode(s)),
        weak |-> T.weak, image |-> T.image, ret |-> s]

\* The weak branch adding the candidate to the weak table although a match
\* was found in the strong or the image table.
ApplyWeakDuplicate(T, s, f) ==
  IF f.where = "weak" THEN Unchanged(T, f.obj)
  ELSE [strong |-> T.strong,
        weak |-> TableInsert(T.weak, s, GetHashCode(s)),
        image |-> T.image,
        ret |-> IF f.where = "none" THEN s ELSE f.obj]

\* The weak branch acting on what the lookups found (f).
ApplyWeak(T, s, f) ==
  IF f.where \in {"strong", "image", "weak"} THEN Unchanged(T, f.obj)
  ELSE [strong |-> T.strong,
        weak |-> TableInsert(T.weak, s, GetHashCode(s)),
        image |-> T.image, ret |-> s]

Apply(T, s, is_strong, f) ==
  IF is_strong THEN ApplyStrong(T, s, f) ELSE ApplyWeak(T, s, f)

\* Insert(s, is_strong) run from start to end on tables T.
Insert(T, s, is_strong) == Apply(T, s, is_strong, Probe(T, s))

\* RegisterStrong taking a value-equal entry out of the weak table.
RegisterStrongEvict(T, s) ==
  LET wk == Lookup(T.weak, s, GetHashCode(s))
  IN  [strong |-> T.strong,
       weak |-> IF wk # NULL THEN Remove(T.weak, wk, GetHashCode(s)) ELSE T.weak,
       image |-> TableInsert(T.image, s, GetHashCode(s)), ret |-> NULL]

\* RegisterStrong adding nothing when some table holds a value-equal entry.
RegisterStrongDedup(T, s) ==
  IF Probe(T, s).where # "none" THEN Unchanged(T, NULL)
  ELSE [strong |-> T.strong, weak |-> T.weak,
        image |-> TableInsert(T.image, s, GetHashCode(s)), ret |-> NULL]

\* InternTable::RegisterStrong on tables T.
RegisterStrong(T, s) ==
  [strong |-> T.strong, weak |-> T.weak,
   image |-> TableInsert(T.image, s, GetHashCode(s)), ret |-> NULL]

\* Size() counting the image entries too.
SizeWithImage == Len(strong) + Len(weak) + Len(image)

\* InternTable::Size
Size == Len(strong) + Len(weak)

\* ContainsWeak answering for any value-equal weak entry (found != NULL).
ContainsWeakByValue(s) == IF Lookup(weak, s, GetHashCode(s)) # NULL THEN 1 ELSE 0

\* InternTable::ContainsWeak: found == s, as 1 (true) or 0 (false).
ContainsWeak(s) == IF Lookup(weak, s, GetHashCode(s)) = s THEN 1 ELSE 0

(* --------------------------- operations ------------------------------- *)
InternOps == {"InternStrong", "InternWeak"}
StringOps == InternOps \cup {"RegisterStrong", "ContainsWeak"}
PlainOps == {"Size", "DumpForSigQuit", "VisitRoots", "SweepInternTableWeaks"}

NoCall == [op |-> "none", arg |-> NULL, ret |-> NULL]

Init ==
  /\ strong = <<>> /\ weak = <<>> /\ image = <<>>
  /\ lock = NULL
  /\ pc = [t \in Threads |-> "idle"]
  /\ op = [t \in Threads |-> "none"]
  /\ arg = [t \in Threads |-> NULL]
  /\ ret = [t \in Threads |-> NULL]
  /\ it = 0 /\ visited = <<>> /\ tested = <<>> /\ weak0 = <<>>
  /\ found = [t \in Threads |-> NotFound]
  /\ last = NoCall
  /\ start = Empty

\* intern_table_lock_.AssertHeld(Thread::Current()) in Lookup, Insert and
\* Remove: the calling thread owns the lock.
AssertHeld(t) == lock = t

\* A call whose MutexLock lets the caller in although the lock is taken.
EnterNoExclusion(t, o, s) ==
  /\ pc[t] = "idle"
  /\ \/ o \in StringOps /\ s \in Refs
     \/ o \in PlainOps /\ s = NULL
  /\ o = "RegisterStrong" => Len(image) < MaxImage
  /\ lock' = t
  /\ pc' = [pc EXCEPT ![t] = "locked"]
  /\ op' = [op EXCEPT ![t] = o]
  /\ arg' = [arg EXCEPT ![t] = s]
  /\ UNCHANGED <<tables, ret, locals, found, last, start>>

\* A thread calls an operation and its MutexLock mu(Thread::Current(),
\* intern_table_lock_) gets the lock; a caller finding the lock taken blocks.
Enter(t, o, s) ==
  /\ pc[t] = "idle"
  /\ lock = NULL
  /\ \/ o \in StringOps /\ s \in Refs
     \/ o \in PlainOps /\ s = NULL
  /\ o = "RegisterStrong" => Len(image) < MaxImage
  /\ lock' = t
  /\ pc' = [pc EXCEPT ![t] = "locked"]
  /\ op' = [op EXCEPT ![t] = o]
  /\ arg' = [arg EXCEPT ![t] = s]
  /\ UNCHANGED <<tables, ret, locals, found, last, start>>

\* The MutexLock constructor of a thread that called Insert with a lock
\* that does not exclude anybody.
AcquireNoExclusion(t) ==
  /\ pc[t] = "wait"
  /\ lock' = t
  /\ pc' = [pc EXCEPT ![t] = "locked"]
  /\ UNCHANGED <<tables, op, arg, ret, locals, found, last, start>>

\* The MutexLock constructor of a thread that has called and is blocked on
\* the lock: it returns once the lock is free.
Acquire(t) ==
  /\ pc[t] = "wait"
  /\ lock = NULL
  /\ lock' = t
  /\ pc' = [pc EXCEPT ![t] = "locked"]
  /\ UNCHANGED <<tables, op, arg, ret, locals, found, last, start>>

\* InternStrong / InternWeak without the NULL test: Insert is called.
InternNullNoCheck(t, o) ==
  /\ pc[t] = "idle"
  /\ lock = NULL
  /\ o \in InternOps
  /\ lock' = t
  /\ pc' = [pc EXCEPT ![t] = "locked"]
  /\ op' = [op EXCEPT ![t] = o]
  /\ arg' = [arg EXCEPT ![t] = NULL]
  /\ UNCHANGED <<tables, ret, locals, found, last, start>>

\* InternStrong(NULL) / InternWeak(NULL): return NULL before Insert is called.
InternNull(t, o) ==
  /\ pc[t] = "idle"
  /\ o \in InternOps
  /\ last' = [op |-> o, arg |-> NULL, ret |-> NULL]
  /\ UNCHANGED <<tables, lock, pc, op, arg, ret, locals, found, start>>

\* Insert(s, is_strong), first part: the lookups in strong, image and weak.
InsertProbe(t) ==
  /\ pc[t] = "locked" /\ op[t] \in InternOps
  /\ found' = [found EXCEPT ![t] = Probe(Tables, arg[t])]
  /\ pc' = [pc EXCEPT ![t] = "probed"]
  /\ UNCHANGED <<tables, lock, op, arg, ret, locals, last, start>>

\* Insert(s, is_strong), second part: return the match, promote it, or
\* insert the candidate.
InsertApply(t) ==
  /\ pc[t] = "probed"
  /\ LET r == Apply(Tables, arg[t], op[t] = "InternStrong", found[t])
     IN  /\ strong' = r.strong
         /\ weak' = r.weak
         /\ image' = r.image
         /\ ret' = [ret EXCEPT ![t] = r.ret]
  /\ pc' = [pc EXCEPT ![t] = "unlock"]
  /\ UNCHANGED <<lock, op, arg, locals, found, last, start>>

\* RegisterStrong: Insert(image_strong_interns_, s, s->GetHashCode()).
DoRegisterStrong(t) ==
  /\ pc[t] = "locked" /\ op[t] = "RegisterStrong"
  /\ LET r == RegisterStrong(Tables, arg[t])
     IN  /\ strong' = r.strong
         /\ weak' = r.weak
         /\ image' = r.image
  /\ pc' = [pc EXCEPT ![t] = "unlock"]
  /\ UNCHANGED <<lock, op, arg, ret, locals, found, last, start>>

DoContainsWeak(t) ==
  /\ pc[t] = "locked" /\ op[t] = "ContainsWeak"
  /\ ret' = [ret EXCEPT ![t] = ContainsWeak(arg[t])]
  /\ pc' = [pc EXCEPT ![t] = "unlock"]
  /\ UNCHANGED <<tables, lock, op, arg, locals, found, last, start>>

DoSize(t) ==
  /\ pc[t] = "locked" /\ op[t] = "Size"
  /\ ret' = [ret EXCEPT ![t] = Size]
  /\ pc' = [pc EXCEPT ![t] = "unlock"]
  /\ UNCHANGED <<tables, lock, op, arg, locals, found, last, start>>

\* DumpForSigQuit only reads the three sizes and writes them to the stream.
DoDumpForSigQuit(t) ==
  /\ pc[t] = "locked" /\ op[t] = "DumpForSigQuit"
  /\ pc' = [pc EXCEPT ![t] = "unlock"]
  /\ UNCHANGED <<tables, lock, op, arg, ret, locals, found, last, start>>

\* VisitRoots: it = strong_interns_.begin().
VisitBegin(t) ==
  /\ pc[t] = "locked" /\ op[t] = "VisitRoots"
  /\ it' = 1 /\ visited' = <<>>
  /\ pc' = [pc EXCEPT ![t] = "visit"]
  /\ UNCHANGED <<tables, lock, op, arg, ret, tested, weak0, found, last, start>>

\* The loop of VisitRoots stopping one entry early.
VisitDoneEarly(i) == i >= Len(strong)

\* The loop test it != end of VisitRoots, negated.
VisitDone(i) == i > Len(strong)

\* One iteration: visitor(it->second, arg); ++it.
VisitStep(t) ==
  /\ pc[t] = "visit" /\ ~VisitDone(it)
  /\ visited' = Append(visited, strong[it])
  /\ it' = it + 1
  /\ UNCHANGED <<tables, lock, pc, op, arg, ret, tested, weak0, found, last, start>>

VisitEnd(t) ==
  /\ pc[t] = "visit" /\ VisitDone(it)
  /\ pc' = [pc EXCEPT ![t] = "unlock"]
  /\ UNCHANGED <<tables, lock, op, arg, ret, locals, found, last, start>>

\* SweepInternTableWeaks: it = weak_interns_.begin().
SweepBegin(t) ==
  /\ pc[t] = "locked" /\ op[t] = "SweepInternTableWeaks"
  /\ it' = 1 /\ tested' = <<>> /\ weak0' = weak
  /\ pc' = [pc EXCEPT ![t] = "sweep"]
  /\ UNCHANGED <<tables, lock, op, arg, ret, visited, found, last, start>>

\* The iterator stepping past the entry that follows an erased one.
SweepNextSkip(i, marked) == i + 1

\* The iterator after one iteration: erase(it++) leaves it on the entry that
\* followed the erased one, which now has the erased one's index; ++it moves on.
SweepNext(i, marked) == IF marked THEN i + 1 ELSE i

\* One iteration: is_marked(it->second, arg) answers marked.
SweepStep(t, marked) ==
  /\ pc[t] = "sweep" /\ it <= Len(weak)
  /\ tested' = Append(tested, <<weak[it], marked>>)
  /\ weak' = IF marked THEN weak ELSE Erase(weak, it)
  /\ it' = SweepNext(it, marked)
  /\ UNCHANGED <<strong, image, lock, pc, op, arg, ret, visited, weak0, found, last, start>>

SweepEnd(t) ==
  /\ pc[t] = "sweep" /\ it > Len(weak)
  /\ pc' = [pc EXCEPT ![t] = "unlock"]
  /\ UNCHANGED <<tables, lock, op, arg, ret, locals, found, last, start>>

\* A return that leaves the lock taken when Insert returns a match early.
ReleaseLeak(t, again) ==
  /\ pc[t] = "unlock"
  /\ lock' = IF op[t] \in InternOps /\ ret[t] # arg[t] THEN lock ELSE NULL
  /\ last' = [op |-> op[t], arg |-> arg[t], ret |-> ret[t]]
  /\ it' = 0 /\ visited' = <<>> /\ tested' = <<>> /\ weak0' = <<>>
  /\ found' = [found EXCEPT ![t] = NotFound]
  /\ IF again
     THEN /\ pc' = [pc EXCEPT ![t] = "idle"]
          /\ op' = [op EXCEPT ![t] = "none"]
          /\ arg' = [arg EXCEPT ![t] = NULL]
          /\ ret' = [ret EXCEPT ![t] = NULL]
     ELSE /\ pc' = [pc EXCEPT ![t] = "returned"]
          /\ UNCHANGED <<op, arg, ret>>
  /\ UNCHANGED <<tables, start>>

\* MutexLock destructor on return: the lock is released and the caller has
\* the return value.  A caller that goes on to make further calls (again)
\* drops the result; one that does not keeps it.
Release(t, again) ==
  /\ pc[t] = "unlock"
  /\ lock' = NULL
  /\ last' = [op |-> op[t], arg |-> arg[t], ret |-> ret[t]]
  /\ it' = 0 /\ visited' = <<>> /\ tested' = <<>> /\ weak0' = <<>>
  /\ found' = [found EXCEPT ![t] = NotFound]
  /\ IF again
     THEN /\ pc' = [pc EXCEPT ![t] = "idle"]
          /\ op' = [op EXCEPT ![t] = "none"]
          /\ arg' = [arg EXCEPT ![t] = NULL]
          /\ ret' = [ret EXCEPT ![t] = NULL]
     ELSE /\ pc' = [pc EXCEPT ![t] = "returned"]
          /\ UNCHANGED <<op, arg, ret>>
  /\ UNCHANGED <<tables, start>>

Next ==
  \E t \in Threads :
    \/ \E o \in StringOps \cup PlainOps, s \in Refs \cup {NULL} : Enter(t, o, s)
    \/ \E o \in InternOps : InternNull(t, o)
    \/ InsertProbe(t)
    \/ InsertApply(t)
    \/ DoRegisterStrong(t)
    \/ DoContainsWeak(t)
    \/ DoSize(t)
    \/ DoDumpForSigQuit(t)
    \/ VisitBegin(t)
    \/ VisitStep(t)
    \/ VisitEnd(t)
    \/ SweepBegin(t)
    \/ \E marked \in BOOLEAN : SweepStep(t, marked)
    \/ SweepEnd(t)
    \/ Release(t, TRUE)

Spec == Init /\ [][Next]_vars

(* ------------- N threads racing to intern one value ------------------- *)
\* The tables left by a call o(s) run alone on tables T.
TablesOf(r) == [strong |-> r.strong, weak |-> r.weak, image |-> r.image]

Run(T, o, s) ==
  IF o = "RegisterStrong" THEN TablesOf(RegisterStrong(T, s))
  ELSE TablesOf(Insert(T, s, o = "InternStrong"))

SetupOps == {"RegisterStrong", "InternStrong", "InternWeak"}
AfterOne == {Run(Empty, o, s) : o \in SetupOps, s \in Refs}
AfterTwo == UNION {{Run(T, o, s) : o \in SetupOps, s \in Refs} : T \in AfterOne}

\* Tables that zero, one or two earlier calls leave behind.
SetupTables == {T \in {Empty} \cup AfterOne \cup AfterTwo : Len(T.image) <= MaxImage}

\* The candidates of the racing threads: String objects holding the text of
\* object 1, either known to the table already or freshly allocated.
Candidates == {s \in 1..(NumRefs + NumThreads) : Equals(s, 1)}

\* Every thread has called InternStrong with a candidate of its own and is
\* about to take the lock.
InitDedup ==
  /\ \E T \in SetupTables :
       strong = T.strong /\ weak = T.weak /\ image = T.image /\ start = T
  /\ lock = NULL
  /\ pc = [t \in Threads |-> "wait"]
  /\ op = [t \in Threads |-> "InternStrong"]
  /\ arg \in {f \in [Threads -> Candidates] : \A t, u \in Threads : t # u => f[t] # f[u]}
  /\ ret = [t \in Threads |-> NULL]
  /\ it = 0 /\ visited = <<>> /\ tested = <<>> /\ weak0 = <<>>
  /\ found = [t \in Threads |-> NotFound]
  /\ last = NoCall

NextDedup ==
  \E t \in Threads :
    \/ Acquire(t)
    \/ InsertProbe(t)
    \/ InsertApply(t)
    \/ Release(t, FALSE)

SpecDedup == InitDedup /\ [][NextDedup]_vars

(* ------------------- racing calls, one per thread ---------------------- *)
\* The public operations, in the order they appear in the source.
OpList ==
  <<"Size", "DumpForSigQuit", "VisitRoots", "RegisterStrong", "InternStrong",
    "InternWeak", "ContainsWeak", "SweepInternTableWeaks">>

\* The calls a thread can make: an operation and its argument.
Calls ==
  {<<o, s>> : o \in StringOps, s \in Refs} \cup {<<o, NULL>> : o \in PlainOps}

\* Threads are interchangeable: the calls are handed out in a fixed order.
CallRank(c) ==
  (CHOOSE i \in 1..Len(OpList) : OpList[i] = c[1]) * (NumRefs + 1) + c[2]

\* Tables that zero or one earlier call leaves behind.
RaceTables == {Empty} \cup AfterOne

\* Every thread has called one operation and is about to take the lock.
InitRace ==
  /\ \E T \in RaceTables :
       strong = T.strong /\ weak = T.weak /\ image = T.image /\ start = T
  /\ lock = NULL
  /\ pc = [t \in Threads |-> "wait"]
  /\ \E c \in [Threads -> Calls] :
       /\ \A t, u \in Threads : t < u => CallRank(c[t]) <= CallRank(c[u])
       /\ op = [t \in Threads |-> c[t][1]]
       /\ arg = [t \in Threads |-> c[t][2]]
  /\ ret = [t \in Threads |-> NULL]
  /\ it = 0 /\ visited = <<>> /\ tested = <<>> /\ weak0 = <<>>
  /\ found = [t \in Threads |-> NotFound]
  /\ last = NoCall

\* The next step of thread t's call.
RaceStep(t) ==
    \/ Acquire(t)
    \/ InsertProbe(t)
    \/ InsertApply(t)
    \/ DoRegisterStrong(t)
    \/ DoContainsWeak(t)
    \/ DoSize(t)
    \/ DoDumpForSigQuit(t)
    \/ VisitBegin(t)
    \/ VisitStep(t)
    \/ VisitEnd(t)
    \/ SweepBegin(t)
    \/ \E marked \in BOOLEAN : SweepStep(t, marked)
    \/ SweepEnd(t)
    \/ Release(t, FALSE)

NextRace == \E t \in Threads : RaceStep(t)

SpecRace == InitRace /\ [][NextRace]_vars

\* Fair scheduling: a thread whose next step stays possible takes it. The
\* predicate and the visitor return without calling into the table, so a
\* thread holding the lock can always step; a thread blocked on the lock can
\* step once the lock is free.
SpecFair == SpecRace /\ \A t \in Threads : WF_vars(RaceStep(t))

\* One public operation run alone, from start to end, on tables T: the
\* results it can have (tables and return value). The sweep has one result
\* per set of entries its predicate can call dead.
RunAlone(T, o, s) ==
  IF o \in InternOps THEN {Insert(T, s, o = "InternStrong")}
  ELSE IF o = "RegisterStrong" THEN {RegisterStrong(T, s)}
  ELSE IF o = "ContainsWeak"
    THEN {Unchanged(T, IF Lookup(T.weak, s, GetHashCode(s)) = s THEN 1 ELSE 0)}
  ELSE IF o = "Size" THEN {Unchanged(T, Len(T.strong) + Len(T.weak))}
  ELSE IF o = "SweepInternTableWeaks"
    THEN {[strong |-> T.strong,
           weak |-> SelectSeq(T.weak, LAMBDA x : x \notin dead),
           image |-> T.image, ret |-> NULL] : dead \in SUBSET Range(T.weak)}
  ELSE {Unchanged(T, NULL)}

(* ------------------------------ claims -------------------------------- *)
\* Indices of the entries of a table that hold content value v.
EntriesOf(table, v) == {i \in 1..Len(table) : ValueOf(table[i]) = v}
\* The objects of a table that hold content value v.
RefsOf(table, v) == {x \in Range(table) : ValueOf(x) = v}
ValuesIn(table) == {ValueOf(x) : x \in Range(table)}
Values == {ValueOf(x) : x \in 1..(NumRefs + NumThreads)}

AllReturned == \A t \in Threads : pc[t] = "returned"
SameResult ==
  \A t, u \in Threads : pc[t] = "returned" /\ pc[u] = "returned" => ret[t] = ret[u]

\* C1 as stated: N threads racing InternStrong on value-equal candidates all
\* get the same reference, and when all have returned the strong table holds
\* exactly one entry for the value.
C1_AsStated ==
  /\ SameResult
  /\ AllReturned => Cardinality(EntriesOf(strong, ValueOf(1))) = 1

\* C1 amended: all racing calls return the same reference; when all have
\* returned the strong table holds exactly one entry for the value, namely
\* the reference returned, unless the reference returned is an entry of the
\* image table, in which case the strong table holds no entry for the value.
C1_ConcurrentDedup ==
  /\ SameResult
  /\ AllReturned =>
       \/ /\ Cardinality(EntriesOf(strong, ValueOf(1))) = 1
          /\ RefsOf(strong, ValueOf(1)) = {ret[1]}
       \/ /\ EntriesOf(strong, ValueOf(1)) = {}
          /\ ret[1] \in Range(image)

\* All callers are back, one call inserted its own candidate and the others
\* were handed that object instead of theirs.
C1_Witness ==
  /\ AllReturned
  /\ \E t \in Threads : ret[t] = arg[t] /\ RefsOf(strong, ValueOf(1)) = {arg[t]}
  /\ \E t \in Threads : ret[t] # arg[t]

\* I1: per content value at most one reference in strong and image together,
\* and a weak entry for the value is another object than that one.
I1 ==
  \A v \in Values :
    /\ Cardinality(RefsOf(strong, v) \cup RefsOf(image, v)) <= 1
    /\ RefsOf(weak, v) \cap (RefsOf(strong, v) \cup RefsOf(image, v)) = {}

\* C2 as stated: I1 holds in every reachable state, whatever calls of
\* RegisterStrong, InternStrong, InternWeak and SweepInternTableWeaks were made.
C2_AsStated == I1

\* C2 amended: I1 holds of the empty tables and every step that leaves the
\* image table alone (every step of InternStrong, InternWeak and
\* SweepInternTableWeaks) keeps it; only RegisterStrong, which inserts
\* without looking, can break it.
C2_CanonicalUniqueness ==
  [][UNCHANGED tables \/ ((image' = image /\ I1) => I1')]_vars

\* I1 holds with all three tables in use: a weak entry whose value also has
\* an (other) image entry, and a strong entry.
C2_Witness ==
  /\ I1
  /\ strong # <<>>
  /\ \E w \in Range(weak), i \in Range(image) : Equals(w, i) /\ w # i
  /\ last.op = "InternStrong"

\* C9 (I2): an entry of the strong table stays in the strong table in every
\* later state, and no entry with its value is ever in the weak table then.
C9_MonotonicPromotion ==
  [][\A x \in Range(strong) :
       x \in Range(strong') /\ ValueOf(x) \notin ValuesIn(weak')]_vars

\* A weak intern of a value that is strongly interned was just answered with
\* the strong entry, after a sweep had run.
C9_Witness ==
  /\ \E t \in Threads :
       /\ pc[t] = "unlock" /\ op[t] = "InternWeak"
       /\ found[t].where = "strong"
       /\ ret[t] # arg[t] /\ ret[t] \in Range(strong)
  /\ last.op = "SweepInternTableWeaks"

\* C10: no content value has an entry in the strong table and an entry in
\* the weak table at once.
C10_StrongWeakDisjoint == ValuesIn(strong) \cap ValuesIn(weak) = {}

\* A promotion has just moved an entry from weak to strong while another
\* value is still weakly interned.
C10_Witness ==
  \E t \in Threads :
    /\ pc[t] = "unlock" /\ op[t] = "InternStrong"
    /\ found[t].where = "weak"
    /\ ret[t] \in Range(strong)
    /\ weak # <<>>

(* Sweep and root visiting *)
Sweeping(t) == op[t] = "SweepInternTableWeaks" /\ pc[t] \in {"sweep", "unlock"}
TestedObjects == [i \in 1..Len(tested) |-> tested[i][1]]
MarkedObjects == LET live == SelectSeq(tested, LAMBDA p : p[2])
                 IN  [i \in 1..Len(live) |-> live[i][1]]
DeadObjects == {tested[i][1] : i \in {j \in 1..Len(tested) : ~tested[j][2]}}

\* While a sweep runs: the entries tested so far are the first entries the
\* weak table had at the start, each once and in order, and the weak table
\* holds the marked ones among them followed by the entries not yet tested.
\* When the loop is over every entry of the start has been tested, the marked
\* ones answer ContainsWeak, the dead ones are gone and Size() is down by the
\* number of dead ones.
SweepProgress ==
  \A t \in Threads : Sweeping(t) =>
    /\ TestedObjects = SubSeq(weak0, 1, Len(tested))
    /\ weak = MarkedObjects \o SubSeq(weak0, Len(tested) + 1, Len(weak0))
    /\ pc[t] = "unlock" =>
         /\ Len(tested) = Len(weak0)
         /\ weak = MarkedObjects
         /\ \A i \in 1..Len(weak) : ContainsWeak(weak[i]) = 1
         /\ \A x \in DeadObjects : x \notin Range(weak) /\ ContainsWeak(x) = 0
         /\ Size = Len(strong) + Len(weak0) - Cardinality(DeadObjects)

\* No step taken while a sweep is in progress changes strong or image.
SweepFrame ==
  (\E t \in Threads :
     op[t] = "SweepInternTableWeaks" /\ pc[t] \in {"locked", "sweep", "unlock"})
  => UNCHANGED <<strong, image>>

\* C4: the sweep tests every entry the weak table had at its start exactly
\* once, keeps exactly the entries found marked, drops the others, lowers
\* Size() by the number dropped and leaves strong and image alone.
C4_SweepExact == []SweepProgress /\ [][SweepFrame]_vars

\* A sweep has ended that kept one entry and dropped another, with strong
\* and image entries present.
C4_Witness ==
  \E t \in Threads :
    /\ Sweeping(t) /\ pc[t] = "unlock"
    /\ Len(weak0) >= 2 /\ Len(weak) >= 1 /\ DeadObjects # {}
    /\ image # <<>>

Visiting(t) == op[t] = "VisitRoots" /\ pc[t] \in {"visit", "unlock"}

\* C5: VisitRoots hands the visitor the entries of the strong table, each
\* exactly once, and no object that is only in weak or only in image.
C5_RootVisit ==
  \A t \in Threads : Visiting(t) =>
    /\ visited = SubSeq(strong, 1, Len(visited))
    /\ \A x \in (Range(weak) \cup Range(image)) \ Range(strong) :
         x \notin Range(visited)
    /\ pc[t] = "unlock" =>
         \A x \in Range(strong) :
           Cardinality({i \in 1..Len(visited) : visited[i] = x}) = 1

\* A VisitRoots call has ended with strong, weak-only and image-only objects
\* in the tables.
C5_Witness ==
  \E t \in Threads :
    /\ Visiting(t) /\ pc[t] = "unlock"
    /\ visited # <<>>
    /\ Range(weak) \ Range(strong) # {}
    /\ Range(image) \ Range(strong) # {}

(* Pairs of calls: the call that completed last and the call now returning *)
\* Thread t is at the return of InternStrong(arg[t]).
StrongReturns(t) == pc[t] = "unlock" /\ op[t] = "InternStrong"

\* C7: InternStrong(a) followed by InternStrong(b), a and b value-equal and
\* reference-distinct, returns the same reference both times.
C7_IdempotentStrong ==
  \A t \in Threads :
    ( /\ StrongReturns(t)
      /\ last.op = "InternStrong" /\ last.arg # NULL
      /\ last.arg # arg[t] /\ Equals(last.arg, arg[t]) )
    => ret[t] = last.ret

\* The second of two such calls returns the first one's candidate, which the
\* first call inserted, and not its own.
C7_Witness ==
  \E t \in Threads :
    /\ StrongReturns(t)
    /\ last.op = "InternStrong" /\ last.arg # NULL
    /\ last.arg # arg[t] /\ Equals(last.arg, arg[t])
    /\ ret[t] = last.arg /\ last.ret = last.arg
    /\ found[t].where = "strong"

\* InternWeak(v) completed last and InternStrong(v') with v' value-equal to v
\* is returning in thread t.
WeakThenStrong(t) ==
  /\ StrongReturns(t)
  /\ last.op = "InternWeak" /\ last.arg # NULL
  /\ Equals(last.arg, arg[t])

Promoted(t) ==
  /\ ret[t] = last.ret
  /\ ContainsWeak(ret[t]) = 0
  /\ ret[t] \in Range(strong)

\* C3 as stated: InternWeak(v) followed by InternStrong(v') returns the
\* object InternWeak returned, which then is not in weak (ContainsWeak false)
\* and is an entry of strong, the table VisitRoots enumerates.
C3_AsStated == \A t \in Threads : WeakThenStrong(t) => Promoted(t)

\* C3 amended: the same, provided the image table holds no entry value-equal
\* to v.
C3_Promotion ==
  \A t \in Threads :
    (WeakThenStrong(t) /\ RefsOf(image, ValueOf(arg[t])) = {}) => Promoted(t)

\* InternWeak inserted its candidate and the InternStrong that followed, given
\* another candidate, promoted and returned that object.
C3_Witness ==
  \E t \in Threads :
    /\ WeakThenStrong(t) /\ RefsOf(image, ValueOf(arg[t])) = {}
    /\ found[t].where = "weak"
    /\ last.ret = last.arg /\ ret[t] = last.arg /\ ret[t] # arg[t]

\* The step in which InternStrong(arg[t]) of thread t acts on the tables.
StrongActs(t) == pc[t] = "probed" /\ op[t] = "InternStrong" /\ pc'[t] = "unlock"

\* C6 as stated: with s in the image table (RegisterStrong(s) was called),
\* InternStrong(s') with s' value-equal to s returns s and leaves Size() as
\* it was.
C6_AsStated ==
  [][\A t \in Threads : StrongActs(t) =>
       \A s \in Range(image) : Equals(s, arg[t]) =>
         ret'[t] = s /\ Size' = Size]_vars

\* C6 amended: with s in the image table, InternStrong(s') leaves Size() as
\* it was, and it returns s provided the strong table has no value-equal
\* entry and s is the first value-equal entry of the image table.
C6_ImagePrecedence ==
  [][\A t \in Threads : StrongActs(t) =>
       \A s \in Range(image) : Equals(s, arg[t]) =>
         /\ Size' = Size
         /\ ( /\ RefsOf(strong, ValueOf(s)) = {}
              /\ Lookup(image, arg[t], GetHashCode(arg[t])) = s )
            => ret'[t] = s]_vars

\* InternStrong was answered with the image entry, not its own candidate,
\* while dynamic entries exist.
C6_Witness ==
  \E t \in Threads :
    /\ StrongReturns(t)
    /\ found[t].where = "image"
    /\ ret[t] \in Range(image) /\ ret[t] # arg[t]
    /\ Size > 0

\* No thread is inside Insert with a NULL candidate, and an intern call
\* given NULL returned NULL.
NullSafe ==
  /\ \A t \in Threads :
       (pc[t] \in {"locked", "probed", "unlock"} /\ op[t] \in InternOps)
       => arg[t] # NULL
  /\ (last.op \in InternOps /\ last.arg = NULL) => last.ret = NULL

\* The step in which an intern call given NULL completes changes no table,
\* not Size() and not the lock.
NullFrame ==
  (last' # last /\ last'.op \in InternOps /\ last'.arg = NULL)
  => (UNCHANGED <<strong, weak, image, lock>> /\ Size' = Size)

\* C8: InternStrong(NULL) and InternWeak(NULL) return NULL, never reach
\* Insert, and leave Size() and the three tables as they were.
C8_NullSafety == []NullSafe /\ [][NullFrame]_vars

\* InternWeak(NULL) has just returned NULL with entries in the tables.
C8_Witness ==
  /\ last = [op |-> "InternWeak", arg |-> NULL, ret |-> NULL]
  /\ strong # <<>> /\ weak # <<>>

(* Locking *)
\* The positions of a call between taking the lock and releasing it, where
\* the tables are read and written.
InSection == {"locked", "probed", "visit", "sweep", "unlock"}

\* C11 (I3): a thread that is reading or writing the tables holds the lock,
\* so at most one thread is in such a section at a time, and the AssertHeld
\* of Lookup, Insert and Remove holds where they are called.
C11_LockProtected ==
  /\ \A t \in Threads : pc[t] \in InSection => AssertHeld(t)
  /\ Cardinality({t \in Threads : pc[t] \in InSection}) <= 1
  /\ lock # NULL => pc[lock] \in InSection

\* A thread is between the lookups and the insertion of Insert, holding the
\* lock, with entries in the tables.
C11_Witness ==
  \E t \in Threads :
    /\ pc[t] = "probed" /\ lock = t
    /\ strong # <<>> /\ weak # <<>>

\* C12: Size() returns the number of strong entries plus the number of weak
\* entries, whatever the image table holds, and a call of Size() right after
\* RegisterStrong would return what the call of Size() right before it did.
C12_SizeExcludesImage ==
  \A t \in Threads :
    /\ (pc[t] = "unlock" /\ op[t] = "Size") => ret[t] = Len(strong) + Len(weak)
    /\ (pc[t] = "unlock" /\ op[t] = "RegisterStrong" /\ last.op = "Size")
       => Size = last.ret

\* Size() came before a RegisterStrong that has just added an image entry,
\* with strong and weak entries present.
C12_Witness ==
  \E t \in Threads :
    /\ pc[t] = "unlock" /\ op[t] = "RegisterStrong" /\ last.op = "Size"
    /\ image # <<>> /\ strong # <<>> /\ weak # <<>>
    /\ last.ret = 2

\* C13: ContainsWeak(s) returns true only if the object s itself is an entry
\* of the weak table: not when weak holds only another, value-equal object,
\* and not when s is only in strong or image.
C13_ContainsWeakIdentity ==
  \A t \in Threads :
    (pc[t] = "unlock" /\ op[t] = "ContainsWeak") =>
      /\ ret[t] = 1 => arg[t] \in Range(weak)
      /\ arg[t] \notin Range(weak) => ret[t] = 0

\* ContainsWeak(s) has answered false while the weak table holds another
\* object with the value of s.
C13_Witness ==
  \E t \in Threads :
    /\ pc[t] = "unlock" /\ op[t] = "ContainsWeak" /\ ret[t] = 0
    /\ \E w \in Range(weak) : Equals(w, arg[t]) /\ w # arg[t]

(* InternWeak *)
\* The first entry of a table, in table order, that holds content value v.
FirstOf(table, v) ==
  table[CHOOSE i \in EntriesOf(table, v) : \A j \in EntriesOf(table, v) : i <= j]

\* Table after is table before with one entry for s added and nothing else
\* changed.
AddsOne(before, after, s) ==
  /\ Len(after) = Len(before) + 1
  /\ \E i \in 1..Len(after) : after[i] = s /\ Erase(after, i) = before

\* Thread t takes the step of Insert that returns, promotes or inserts.
InsertActs(t, o) == pc[t] = "probed" /\ op[t] = o /\ pc'[t] = "unlock"

WeakInternStep(t) ==
  LET s == arg[t]
      v == ValueOf(s)
  IN  IF EntriesOf(strong, v) # {}
        THEN ret'[t] = FirstOf(strong, v) /\ UNCHANGED tables
      ELSE IF EntriesOf(image, v) # {}
        THEN ret'[t] = FirstOf(image, v) /\ UNCHANGED tables
      ELSE IF EntriesOf(weak, v) # {}
        THEN ret'[t] = FirstOf(weak, v) /\ UNCHANGED tables
      ELSE /\ ret'[t] = s
           /\ AddsOne(weak, weak', s)
           /\ strong' = strong /\ image' = image

\* C15: InternWeak(candidate) returns the first value-equal entry of strong,
\* else of image, else of weak, and then changes no table; when no table
\* holds a value-equal entry it adds the candidate to weak only and returns
\* the candidate.
C15_InternWeak ==
  [][\A t \in Threads : InsertActs(t, "InternWeak") => WeakInternStep(t)]_vars

\* InternWeak has returned an image entry that is not the candidate, with
\* the weak table left empty.
C15_Witness ==
  \E t \in Threads :
    /\ pc[t] = "unlock" /\ op[t] = "InternWeak"
    /\ found[t].where = "image" /\ ret[t] # arg[t] /\ ret[t] \in Range(image)
    /\ weak = <<>> /\ strong # <<>>

(* Weak removals *)
\* A sweep step tests entry x and its predicate answers false.
SweptDead(x) ==
  \E t \in Threads :
    /\ pc[t] = "sweep" /\ op[t] = "SweepInternTableWeaks" /\ lock = t
    /\ it <= Len(weak) /\ weak[it] = x
    /\ tested' = Append(tested, <<x, FALSE>>)

\* An InternStrong step promotes entry x.
PromotedNow(x) ==
  \E t \in Threads :
    /\ InsertActs(t, "InternStrong") /\ lock = t
    /\ Equals(x, arg[t]) /\ ret'[t] = x
    /\ x \in Range(strong') \ Range(strong)

NonRemovingOps ==
  {"InternWeak", "RegisterStrong", "ContainsWeak", "Size", "DumpForSigQuit",
   "VisitRoots"}

WeakRemovals ==
  /\ \A x \in Range(weak) \ Range(weak') : SweptDead(x) \/ PromotedNow(x)
  /\ Len(weak') < Len(weak) => Range(weak) \ Range(weak') # {}
  /\ \A t \in Threads :
       (lock = t /\ op[t] \in NonRemovingOps) => Range(weak) \subseteq Range(weak')

\* C16: an entry leaves the weak table only in a sweep step whose predicate
\* answered false for it or in an InternStrong step that promotes it; no step
\* of InternWeak, RegisterStrong, ContainsWeak, Size, DumpForSigQuit or
\* VisitRoots removes a weak entry.
C16_WeakRemovals == [][WeakRemovals]_vars

\* A sweep has removed a dead entry right after an InternStrong call that
\* returned an object other than its candidate.
C16_Witness ==
  \E t \in Threads :
    /\ Sweeping(t) /\ pc[t] = "unlock" /\ DeadObjects # {}
    /\ last.op = "InternStrong" /\ last.ret # last.arg
    /\ last.ret \in Range(strong) /\ image = <<>>

(* Image table *)
RegisterActs(t) == pc[t] = "locked" /\ op[t] = "RegisterStrong" /\ pc'[t] = "unlock"

ImageFrame ==
  /\ image' # image => \E t \in Threads : RegisterActs(t)
  /\ \A t \in Threads :
       RegisterActs(t) =>
         /\ AddsOne(image, image', arg[t])
         /\ strong' = strong /\ weak' = weak

StrongInternStep(t) ==
  LET r == ret'[t]
  IN  /\ Equals(r, arg[t])
      /\ r = arg[t] \/ r \in Range(strong) \cup Range(image) \cup Range(weak)
      /\ r \in Range(strong') \cup Range(image')

\* C19: the reference r returned by InternStrong(candidate), candidate not
\* null, is value-equal to the candidate, is the candidate or an object a
\* table held before the call, and on return is an entry of the strong or of
\* the image table.
C19_StrongResult ==
  [][\A t \in Threads : InsertActs(t, "InternStrong") => StrongInternStep(t)]_vars

\* InternStrong has returned an object that was only in the weak table,
\* while another bucket-mate stays in the strong table.
C19_Witness ==
  \E t \in Threads :
    /\ pc[t] = "unlock" /\ op[t] = "InternStrong"
    /\ found[t].where = "weak" /\ ret[t] # arg[t]
    /\ ret[t] \in Range(strong) /\ ret[t] \notin Range(weak)
    /\ \E x \in Range(strong) : ~Equals(x, ret[t]) /\ GetHashCode(x) = GetHashCode(ret[t])

(* One entry per value *)
\* C20: in every reachable state the strong table holds at most one entry per
\* content value and the weak table holds at most one entry per content
\* value.
C20_OneEntryPerValue ==
  \A v \in Values :
    /\ Cardinality(EntriesOf(strong, v)) <= 1
    /\ Cardinality(EntriesOf(weak, v)) <= 1

\* InternWeak was given a second object of a value the weak table holds and
\* returned the entry, after an InternStrong call filled the strong table.
C20_Witness ==
  \E t \in Threads :
    /\ pc[t] = "unlock" /\ op[t] = "InternWeak"
    /\ found[t].where = "weak" /\ ret[t] # arg[t]
    /\ last.op = "InternStrong"
    /\ strong # <<>> /\ Len(weak) = 1

(* Serial equivalence *)
\* The outcomes (final tables and return values) of running the calls of the
\* threads in todo one after the other, in any order, from tables T.
RECURSIVE SerialFrom(_, _, _)
SerialFrom(T, todo, rets) ==
  IF todo = {} THEN {[tables |-> T, rets |-> rets]}
  ELSE UNION {UNION {SerialFrom(TablesOf(r), todo \ {t}, [rets EXCEPT ![t] = r.ret])
                     : r \in RunAlone(T, op[t], arg[t])} : t \in todo}

SerialOutcomes == SerialFrom(start, Threads, [t \in Threads |-> NULL])

\* While a thread is between the lookups and the insertion of Insert no other
\* thread is inside a table operation, and what the lookups found is what
\* they would find now.
CheckThenInsertAtomic ==
  \A t \in Threads :
    pc[t] = "probed" =>
      /\ \A u \in Threads \ {t} : pc[u] \notin InSection
      /\ found[t] = Probe(Tables, arg[t])

\* C14: the lookups and the insertion of an intern call are atomic with
\* respect to every other operation, and when all racing calls have returned
\* the tables and the return values are those of some serial execution of
\* the same calls.
C14_Serializable ==
  /\ CheckThenInsertAtomic
  /\ AllReturned => [tables |-> Tables, rets |-> ret] \in SerialOutcomes

\* InternStrong(c) raced with a sweep over a weak table holding an object w
\* value-equal to c: both have returned, the value is in strong once and not
\* in weak.
C14_Witness ==
  /\ AllReturned
  /\ \E t, u \in Threads :
       /\ op[t] = "InternStrong" /\ op[u] = "SweepInternTableWeaks"
       /\ start.strong = <<>> /\ start.image = <<>>
       /\ \E w \in Range(start.weak) : Equals(w, arg[t]) /\ w # arg[t]
       /\ ret[t] = arg[t]
       /\ Cardinality(EntriesOf(strong, ValueOf(arg[t]))) = 1
       /\ weak = <<>>

(* Progress *)
\* No call is between taking the lock and releasing it.
NoneInProgress == \A t \in Threads : pc[t] \notin InSection

\* C18: under fair scheduling every call that was made takes the lock, runs
\* to its end and releases the lock whatever return path it takes: a call
\* runs only while its thread holds the lock, the lock is free whenever no
\* call is in progress, and in the end all calls have returned (a thread
\* returns only by taking the lock and releasing it) and the lock is free.
C18_Progress ==
  /\ [](\A t \in Threads : pc[t] \in InSection => lock = t)
  /\ [](NoneInProgress => lock = NULL)
  /\ <>[](AllReturned /\ lock = NULL)

\* All calls have returned and the lock is free, one of them an intern call
\* that returned early with a match, another one a sweep or a root visit.
C18_Witness ==
  /\ AllReturned /\ lock = NULL
  /\ \E t, u \in Threads :
       /\ op[t] \in InternOps /\ ret[t] # arg[t]
       /\ op[u] \in {"SweepInternTableWeaks", "VisitRoots"}

====
